---- MODULE Spec2Model ----
(***************************************************************************)
(* GPS track optimization pipeline of backend/utils/gpx_optimizer.py and   *)
(* the route statistics of backend/utils/gpx_processor.py.                 *)
(*                                                                         *)
(* Numbers.  Coordinates are integers in grid units of 1e-5 degree around  *)
(* latitude 0 / longitude 0 (one unit is 1.1119 m of great circle there).  *)
(* Lengths are integers in centimetres, elevations in metres.  On this     *)
(* grid cos(latitude) differs from 1 by less than 2e-8, so the haversine   *)
(* distance is R * sqrt(dlat^2 + dlon^2) and the initial bearing is        *)
(* atan2(dlon, dlat) to far below the resolution used here.                *)
(***************************************************************************)
EXTENDS Integers, Sequences, FiniteSets, TLC

VARIABLES track, cfg, pc, stats, result, raised, result2, raised2,
          original_count, optimized_count, compression, stages

vars == <<track, cfg, pc, stats, result, raised, result2, raised2,
          original_count, optimized_count, compression, stages>>

\* ---------------------------------------------------------------- bounds
\* Longest track built from the empty list.
MaxLen == 3
\* Length of the straight flat approach a long track starts with.
BaseLen == 8
\* Number of further points appended to the approach.
MaxExtra == 2
\* Largest point count handed to calculate_compression_stats.
MaxCount == 8
\* The interpreter's recursion limit (sys.getrecursionlimit(), 1000 by
\* default), scaled to the track lengths above: the number of nested
\* _douglas_peucker frames beyond which Python raises RecursionError.
RecursionLimit == 6

\* ------------------------------------------------------------- arithmetic
Abs(x) == IF x < 0 THEN -x ELSE x

Min(a, b) == IF a < b THEN a ELSE b

Max(a, b) == IF a > b THEN a ELSE b

RECURSIVE SqrtSearch(_, _, _)
\* Largest r in lo..hi with r*r <= n (bisection; lo*lo <= n < (hi+1)^2).
SqrtSearch(n, lo, hi) ==
    IF lo >= hi THEN lo
    ELSE LET mid == (lo + hi + 1) \div 2
         IN IF mid * mid <= n THEN SqrtSearch(n, mid, hi)
                              ELSE SqrtSearch(n, lo, mid - 1)

\* math.sqrt, rounded down to an integer.
ISqrt(n) == SqrtSearch(n, 0, 46340)

\* ------------------------------------------------------- program constants
\* Earth's radius 6371000 m times one grid unit (1e-5 degree in radians),
\* in 1/100 cm: 6371000 * pi / 180 * 1e-5 m = 1.11195 m.
EarthUnit == 11119
\* "Rough conversion to meters" 111000 m per degree, for one grid unit, in
\* 1/10 cm: 111000 * 1e-5 m = 1.11 m.
PlanarUnit == 1110
\* 15 degree threshold of the direction test: tan(15 deg) = 0.2679.
TanThreshold == 2679
\* Gap test, "Keep points at least every 100m", in cm.
GapThreshold == 10000
\* "Minimum 5m separation" of the merge, in cm.
MinSeparation == 500
\* Largest elevation window on each side of a point.
MaxWindow == 5
\* The window is len(points) // 10.
WindowDivisor == 10

\* ------------------------------------------------------------ input space
\* One appended sample moves (east, north) grid units from the previous one:
\* 111 m east, 2.2 m east, 22 m north, 111 m west (out and back), or not at
\* all (duplicate sample).
Moves == {<<100, 0>>, <<2, 0>>, <<0, 20>>, <<-100, 0>>, <<0, 0>>}

\* Elevations of a sample, metres.
Elevations == {0, 50}

\* RawPoint: what process_gpx_content appends for one trkpt.
RawPoint(lat, lon, ele) == [latitude |-> lat, longitude |-> lon, elevation |-> ele]

\* Constructor arguments of GPXOptimizer: the defaults, a tighter distance
\* tolerance, a lower density cap, and two that violate the documented
\* preconditions.
DefaultConfig == [distance_tolerance |-> 10, elevation_tolerance |-> 5, max_points_per_km |-> 20]

Configs ==
    { DefaultConfig,
      [distance_tolerance |-> 1, elevation_tolerance |-> 5, max_points_per_km |-> 20],
      [distance_tolerance |-> 10, elevation_tolerance |-> 5, max_points_per_km |-> 2],
      [distance_tolerance |-> -1, elevation_tolerance |-> 5, max_points_per_km |-> 20],
      [distance_tolerance |-> 10, elevation_tolerance |-> 5, max_points_per_km |-> 0] }

\* OptimizationConfig's documented domain: all three parameters positive.
ValidConfig(c) ==
    /\ c.distance_tolerance > 0
    /\ c.elevation_tolerance > 0
    /\ c.max_points_per_km > 0

\* ---------------------------------------------------------- DistanceModel
\* Great-circle distance in cm between two grid points.
GreatCircle(lat1, lon1, lat2, lon2) ==
    LET dlat == lat2 - lat1
        dlon == lon2 - lon1
    IN (ISqrt(100 * (dlat * dlat + dlon * dlon)) * EarthUnit) \div 1000

\* GPXOptimizer._haversine_distance
Haversine(lat1, lon1, lat2, lon2) == GreatCircle(lat1, lon1, lat2, lon2)

\* gpx_processor.haversine_distance
HaversineDistance(lat1, lon1, lat2, lon2) == GreatCircle(lat1, lon1, lat2, lon2)

\* ------------------------------------------------- StatisticsAggregator
RECURSIVE StatsLoop(_, _, _)
\* The loop of calculate_route_statistics from index i on, acc the totals.
StatsLoop(pts, i, acc) ==
    IF i > Len(pts) THEN acc
    ELSE LET prev_point == pts[i - 1]
             curr_point == pts[i]
             distance == HaversineDistance(prev_point.latitude, prev_point.longitude,
                                           curr_point.latitude, curr_point.longitude)
             elevation_diff == curr_point.elevation - prev_point.elevation
         IN StatsLoop(pts, i + 1,
              [total_distance |-> acc.total_distance + distance,
               elevation_gain |-> IF elevation_diff > 0
                                  THEN acc.elevation_gain + elevation_diff
                                  ELSE acc.elevation_gain,
               elevation_loss |-> IF elevation_diff > 0
                                  THEN acc.elevation_loss
                                  ELSE acc.elevation_loss + Abs(elevation_diff)])

ZeroStats == [total_distance |-> 0, elevation_gain |-> 0, elevation_loss |-> 0]

\* Statistics whose loop starts one segment late (range(2, len)): the first
\* segment's distance and elevation change are never counted.
CalculateRouteStatisticsLateStart(pts) ==
    IF Len(pts) < 2 THEN ZeroStats ELSE StatsLoop(pts, 3, ZeroStats)

\* Statistics of the net climb between the first and the last sample only,
\* as a smoothed profile would give them.
CalculateRouteStatisticsNet(pts) ==
    IF Len(pts) < 2 THEN ZeroStats
    ELSE LET net == pts[Len(pts)].elevation - pts[1].elevation
         IN [total_distance |-> StatsLoop(pts, 2, ZeroStats).total_distance,
             elevation_gain |-> Max(net, 0),
             elevation_loss |-> Max(0 - net, 0)]

\* calculate_route_statistics(track_points)
CalculateRouteStatistics(pts) ==
    IF Len(pts) < 2 THEN ZeroStats ELSE StatsLoop(pts, 2, ZeroStats)

\* ------------------------------------------------------ _add_distance_data
RECURSIVE AddDistanceLoop(_, _, _, _)
AddDistanceLoop(points, i, total_distance, processed) ==
    IF i > Len(points) THEN processed
    ELSE LET total == IF i > 1
                      THEN total_distance
                           + Haversine(points[i - 1].latitude, points[i - 1].longitude,
                                       points[i].latitude, points[i].longitude)
                      ELSE total_distance
         IN AddDistanceLoop(points, i + 1, total,
              Append(processed,
                     [latitude |-> points[i].latitude,
                      longitude |-> points[i].longitude,
                      elevation |-> points[i].elevation,
                      distance_from_start |-> total,
                      index |-> i - 1]))

\* GPXOptimizer._add_distance_data
AddDistanceData(points) == AddDistanceLoop(points, 1, 0, << >>)

\* ------------------------------------------------------ RedundancyFilter
\* GPXOptimizer._calculate_bearing, as the direction (east, north) whose
\* atan2 is the bearing; atan2(0, 0) is 0 degrees, i.e. due north.
CalculateBearing(p1, p2) ==
    LET east == p2.longitude - p1.longitude
        north == p2.latitude - p1.latitude
    IN IF east = 0 /\ north = 0 THEN <<0, 1>> ELSE <<east, north>>

\* GPXOptimizer._is_significant_direction_change: the two bearings differ by
\* more than 15 degrees (circular difference).
IsSignificantDirectionChange(p1, p2, p3) ==
    LET bearing1 == CalculateBearing(p1, p2)
        bearing2 == CalculateBearing(p2, p3)
        dot == bearing1[1] * bearing2[1] + bearing1[2] * bearing2[2]
        cross == bearing1[1] * bearing2[2] - bearing1[2] * bearing2[1]
    IN \/ dot <= 0
       \/ Abs(cross) * 10000 > TanThreshold * dot

\* GPXOptimizer._is_significant_elevation_change
IsSignificantElevationChange(p1, p2, p3, c) ==
    LET e1 == p1.elevation
        e2 == p2.elevation
        e3 == p3.elevation
    IN IF (e2 > e1 /\ e2 > e3) \/ (e2 < e1 /\ e2 < e3)
       THEN Max(Abs(e2 - e1), Abs(e2 - e3)) > c.elevation_tolerance
       ELSE FALSE

\* GPXOptimizer._is_significant_distance_gap
IsSignificantDistanceGap(p1, p2) ==
    p2.distance_from_start - p1.distance_from_start > GapThreshold

RECURSIVE FilterLoopRawPredecessor(_, _, _, _)
\* The filter loop with the raw predecessor points[i - 1] as prev_point.
FilterLoopRawPredecessor(points, i, filtered, c) ==
    IF i > Len(points) - 1 THEN filtered
    ELSE LET prev_point == points[i - 1]
             curr_point == points[i]
             next_point == points[i + 1]
             should_keep ==
                \/ IsSignificantDirectionChange(prev_point, curr_point, next_point)
                \/ IsSignificantElevationChange(prev_point, curr_point, next_point, c)
                \/ IsSignificantDistanceGap(prev_point, curr_point)
         IN FilterLoopRawPredecessor(points, i + 1,
                IF should_keep THEN Append(filtered, curr_point) ELSE filtered, c)

RECURSIVE FilterLoop(_, _, _, _)
FilterLoop(points, i, filtered, c) ==
    IF i > Len(points) - 1 THEN filtered
    ELSE LET prev_point == filtered[Len(filtered)]
             curr_point == points[i]
             next_point == points[i + 1]
             should_keep ==
                \/ IsSignificantDirectionChange(prev_point, curr_point, next_point)
                \/ IsSignificantElevationChange(prev_point, curr_point, next_point, c)
                \/ IsSignificantDistanceGap(prev_point, curr_point)
         IN FilterLoop(points, i + 1,
                       IF should_keep THEN Append(filtered, curr_point) ELSE filtered, c)

\* The filter without "Always keep last point".
RemoveRedundantPointsOpenEnded(points, c) ==
    IF Len(points) < 3 THEN points
    ELSE FilterLoop(points, 2, <<points[1]>>, c)

\* GPXOptimizer._remove_redundant_points
RemoveRedundantPoints(points, c) ==
    IF Len(points) < 3 THEN points
    ELSE Append(FilterLoop(points, 2, <<points[1]>>, c), points[Len(points)])

\* ------------------------------------------------------- ShapeSimplifier
\* The distance with a zero-length chord treated as a point: the planar
\* distance to that point instead of 0.
PerpendicularDistanceToPoint(point, line_start, line_end) ==
    LET x0 == point.longitude
        y0 == point.latitude
        x1 == line_start.longitude
        y1 == line_start.latitude
        x2 == line_end.longitude
        y2 == line_end.latitude
        numerator == Abs((y2 - y1) * x0 - (x2 - x1) * y0 + x2 * y1 - y2 * x1)
        denominator10 == ISqrt(100 * ((y2 - y1) * (y2 - y1) + (x2 - x1) * (x2 - x1)))
    IN IF denominator10 = 0
       THEN (ISqrt(100 * ((x0 - x1) * (x0 - x1) + (y0 - y1) * (y0 - y1))) * PlanarUnit) \div 100
       ELSE (numerator * PlanarUnit) \div denominator10

\* GPXOptimizer._perpendicular_distance, in cm: |cross product| over the
\* chord length, in degrees, times 111000.
PerpendicularDistance(point, line_start, line_end) ==
    LET x0 == point.longitude
        y0 == point.latitude
        x1 == line_start.longitude
        y1 == line_start.latitude
        x2 == line_end.longitude
        y2 == line_end.latitude
        numerator == Abs((y2 - y1) * x0 - (x2 - x1) * y0 + x2 * y1 - y2 * x1)
        denominator10 == ISqrt(100 * ((y2 - y1) * (y2 - y1) + (x2 - x1) * (x2 - x1)))
    IN IF denominator10 = 0 THEN 0
       ELSE (numerator * PlanarUnit) \div denominator10

RECURSIVE MaxDistanceLoopLastWins(_, _, _, _)
\* The scan with ">=": of several points at the maximum the last one wins.
MaxDistanceLoopLastWins(points, i, max_distance, max_index) ==
    IF i > Len(points) - 2
    THEN [max_distance |-> max_distance, max_index |-> max_index]
    ELSE LET distance == PerpendicularDistance(points[i + 1], points[1], points[Len(points)])
         IN IF distance >= max_distance
            THEN MaxDistanceLoopLastWins(points, i + 1, distance, i)
            ELSE MaxDistanceLoopLastWins(points, i + 1, max_distance, max_index)

RECURSIVE MaxDistanceLoop(_, _, _, _)
\* The scan of _douglas_peucker over range(1, len(points) - 1); i and
\* max_index are Python's 0-based indices.
MaxDistanceLoop(points, i, max_distance, max_index) ==
    IF i > Len(points) - 2
    THEN [max_distance |-> max_distance, max_index |-> max_index]
    ELSE LET distance == PerpendicularDistance(points[i + 1], points[1], points[Len(points)])
         IN IF distance > max_distance
            THEN MaxDistanceLoop(points, i + 1, distance, i)
            ELSE MaxDistanceLoop(points, i + 1, max_distance, max_index)

\* A stage's outcome: the exception it raised ("none" if it returned) and
\* the sequence it returned.
Returned(points) == [raised |-> "none", points |-> points]

Raised(exception) == [raised |-> exception, points |-> << >>]

\* The simplifier without its distance test: every interval collapses to
\* its two endpoints.
DouglasPeuckerEndpointsOnly(points, tolerance) ==
    IF Len(points) < 3 THEN Returned(points)
    ELSE Returned(<<points[1], points[Len(points)]>>)

RECURSIVE DouglasPeuckerFrame(_, _, _)
\* One frame of GPXOptimizer._douglas_peucker, the frames-th nested one;
\* tolerance in cm.  Every recursive call is one frame deeper, and a call
\* beyond the recursion limit raises RecursionError.  With max_index = 0
\* the right part is points[0:], the same call again, which ends there.
DouglasPeuckerFrame(points, tolerance, frames) ==
    IF frames > RecursionLimit THEN Raised("RecursionError")
    ELSE IF Len(points) < 3 THEN Returned(points)
    ELSE LET scan == MaxDistanceLoop(points, 1, 0, 0)
         IN IF scan.max_distance > tolerance
            THEN LET left_part == DouglasPeuckerFrame(SubSeq(points, 1, scan.max_index + 1),
                                                      tolerance, frames + 1)
                     right_part == DouglasPeuckerFrame(SubSeq(points, scan.max_index + 1, Len(points)),
                                                       tolerance, frames + 1)
                 IN IF left_part.raised # "none" THEN left_part
                    ELSE IF right_part.raised # "none" THEN right_part
                    ELSE Returned(SubSeq(left_part.points, 1, Len(left_part.points) - 1)
                                  \o right_part.points)
            ELSE Returned(<<points[1], points[Len(points)]>>)

\* GPXOptimizer._douglas_peucker as optimize_track calls it.
DouglasPeucker(points, tolerance) == DouglasPeuckerFrame(points, tolerance, 1)

\* ---------------------------------------------- ElevationFeaturePreserver
\* The feature test with a window of at least one neighbour on each side,
\* whatever the length of the track.
IsElevationPeakOrValleyFixedWindow(points, index) ==
    IF index <= 0 \/ index >= Len(points) - 1 THEN FALSE
    ELSE LET window_size == Max(1, Min(MaxWindow, Len(points) \div WindowDivisor))
             start_idx == Max(0, index - window_size)
             end_idx == Min(Len(points), index + window_size + 1)
             current_elevation == points[index + 1].elevation
             nearby == {j \in (start_idx + 1)..end_idx : points[j] # points[index + 1]}
         IN IF nearby = {} THEN FALSE
            ELSE \/ \A j \in nearby : current_elevation > points[j].elevation
                 \/ \A j \in nearby : current_elevation < points[j].elevation

\* GPXOptimizer._is_elevation_peak_or_valley; index is 0-based.
IsElevationPeakOrValley(points, index) ==
    IF index <= 0 \/ index >= Len(points) - 1 THEN FALSE
    ELSE LET window_size == Min(MaxWindow, Len(points) \div WindowDivisor)
             start_idx == Max(0, index - window_size)
             end_idx == Min(Len(points), index + window_size + 1)
             current_elevation == points[index + 1].elevation
             nearby == {j \in (start_idx + 1)..end_idx : points[j] # points[index + 1]}
         IN IF nearby = {} THEN FALSE
            ELSE \/ \A j \in nearby : current_elevation > points[j].elevation
                 \/ \A j \in nearby : current_elevation < points[j].elevation

RECURSIVE InsertByDistance(_, _)
\* Insert p behind every element whose key is not larger (stable order).
InsertByDistance(sorted, p) ==
    IF sorted = << >> THEN <<p>>
    ELSE IF sorted[Len(sorted)].distance_from_start <= p.distance_from_start
         THEN Append(sorted, p)
         ELSE Append(InsertByDistance(SubSeq(sorted, 1, Len(sorted) - 1), p),
                     sorted[Len(sorted)])

RECURSIVE SortLoop(_, _, _)
SortLoop(points, i, sorted) ==
    IF i > Len(points) THEN sorted
    ELSE SortLoop(points, i + 1, InsertByDistance(sorted, points[i]))

\* The merge without its sort: the re-inserted features stay behind the
\* simplified points.
SortByDistanceOmitted(points) == points

\* list.sort(key=lambda x: x['distance_from_start']): stable.
SortByDistance(points) == SortLoop(points, 1, << >>)

\* The minimum-separation pass without its distance test: every point of
\* the sorted union is kept.
MergeLoopKeepAll(all_points, i, merged) == all_points

RECURSIVE MergeLoop(_, _, _)
\* "Remove points that are too close together"
MergeLoop(all_points, i, merged) ==
    IF i > Len(all_points) THEN merged
    ELSE LET point == all_points[i]
             keep == \/ merged = << >>
                     \/ Haversine(merged[Len(merged)].latitude, merged[Len(merged)].longitude,
                                  point.latitude, point.longitude) > MinSeparation
         IN MergeLoop(all_points, i + 1, IF keep THEN Append(merged, point) ELSE merged)

\* The points of original_points that _is_elevation_peak_or_valley accepts.
ElevationFeatures(original_points) ==
    SelectSeq(original_points, LAMBDA point : IsElevationPeakOrValley(original_points, point.index))

\* GPXOptimizer._preserve_elevation_features
PreserveElevationFeatures(original_points, simplified_points) ==
    LET all_points == SortByDistance(simplified_points \o ElevationFeatures(original_points))
    IN MergeLoop(all_points, 1, << >>)

\* ---------------------------------------------------------- DensityCapper
RECURSIVE SampleLoop(_, _, _, _)
\* for i in range(max_total_points): index = int(i * step)
SampleLoop(points, max_total_points, i, sampled) ==
    IF i >= max_total_points THEN sampled
    ELSE LET index == (i * Len(points)) \div max_total_points
         IN SampleLoop(points, max_total_points, i + 1,
                       IF index < Len(points) THEN Append(sampled, points[index + 1])
                                              ELSE sampled)

\* int(total_distance / 1000.0 * max_points_per_km), total_distance in cm.
MaxTotalPoints(total_distance, c) == (total_distance * c.max_points_per_km) \div 100000

\* The density stage without its cap: every sequence is returned as it is.
EnsureMinimumDensityUncapped(points, c) == Returned(points)

\* GPXOptimizer._ensure_minimum_density; len(points) / 0 raises
\* ZeroDivisionError.
EnsureMinimumDensity(points, c) ==
    IF Len(points) < 2 THEN Returned(points)
    ELSE LET max_total_points == MaxTotalPoints(points[Len(points)].distance_from_start, c)
         IN IF Len(points) <= max_total_points THEN Returned(points)
            ELSE IF max_total_points = 0 THEN Raised("ZeroDivisionError")
            ELSE LET sampled == SampleLoop(points, max_total_points, 0, << >>)
                 IN IF sampled[Len(sampled)] # points[Len(points)]
                    THEN Returned(Append(sampled, points[Len(points)]))
                    ELSE Returned(sampled)

\* ------------------------------------------------------------ the pipeline
\* The conversion reading a key the dicts do not carry: every elevation
\* falls back to the default 0.
ConvertToTrackPointsDefaultElevation(points) ==
    [i \in 1..Len(points) |->
        [latitude |-> points[i].latitude,
         longitude |-> points[i].longitude,
         elevation |-> 0,
         distance_from_start |-> IF "distance_from_start" \in DOMAIN points[i]
                                 THEN points[i].distance_from_start
                                 ELSE 0]]

\* GPXOptimizer._convert_to_track_points: distance_from_start defaults to 0.
ConvertToTrackPoints(points) ==
    [i \in 1..Len(points) |->
        [latitude |-> points[i].latitude,
         longitude |-> points[i].longitude,
         elevation |-> points[i].elevation,
         distance_from_start |-> IF "distance_from_start" \in DOMAIN points[i]
                                 THEN points[i].distance_from_start
                                 ELSE 0]]

\* The local variables of optimize_track before any of them is assigned
\* (tracks of fewer than 3 points return before step 1).
NotRun ==
    [processed_points |-> << >>,
     filtered_points |-> << >>,
     simplified_points |-> Returned(<< >>),
     elevation_preserved |-> << >>,
     final_points |-> Returned(<< >>)]

\* Steps 1 to 5 of optimize_track: the value of each local variable; a
\* stage that raised leaves the later ones unassigned.
OptimizeTrackStages(track_points, c) ==
    IF Len(track_points) < 3 THEN NotRun
    ELSE LET processed_points == AddDistanceData(track_points)
             filtered_points == RemoveRedundantPoints(processed_points, c)
             simplified_points == DouglasPeucker(filtered_points, c.distance_tolerance * 100)
             elevation_preserved ==
                 IF simplified_points.raised # "none" THEN << >>
                 ELSE PreserveElevationFeatures(processed_points, simplified_points.points)
             final_points ==
                 IF simplified_points.raised # "none" THEN Returned(<< >>)
                 ELSE EnsureMinimumDensity(elevation_preserved, c)
         IN [processed_points |-> processed_points,
             filtered_points |-> filtered_points,
             simplified_points |-> simplified_points,
             elevation_preserved |-> elevation_preserved,
             final_points |-> final_points]

\* What optimize_track returns or raises, given its local variables.
OptimizeTrackOutcome(track_points, locals) ==
    IF Len(track_points) < 3 THEN Returned(ConvertToTrackPoints(track_points))
    ELSE IF locals.simplified_points.raised # "none" THEN locals.simplified_points
    ELSE IF locals.final_points.raised # "none" THEN locals.final_points
    ELSE Returned(ConvertToTrackPoints(locals.final_points.points))

\* GPXOptimizer.optimize_track
OptimizeTrack(track_points, c) ==
    OptimizeTrackOutcome(track_points, OptimizeTrackStages(track_points, c))

\* Steps 1 to 4 of optimize_track: the sequence handed to the density cap
\* (empty when Douglas-Peucker raised).
ElevationPreserved(track_points, c) ==
    LET processed_points == AddDistanceData(track_points)
        simplified_points == DouglasPeucker(RemoveRedundantPoints(processed_points, c),
                                            c.distance_tolerance * 100)
    IN IF simplified_points.raised # "none" THEN << >>
       ELSE PreserveElevationFeatures(processed_points, simplified_points.points)

\* Steps 1 to 3 of optimize_track: the Douglas-Peucker outcome.
Simplified(track_points, c) ==
    DouglasPeucker(RemoveRedundantPoints(AddDistanceData(track_points), c),
                   c.distance_tolerance * 100)

\* Steps 1 to 5 of optimize_track: final_points, before the conversion
\* drops the index (empty when a stage raised).
FinalPoints(track_points, c) ==
    IF Simplified(track_points, c).raised # "none" THEN << >>
    ELSE EnsureMinimumDensity(ElevationPreserved(track_points, c), c).points

\* ------------------------------------------------ calculate_compression_stats
\* Fixed point of compression_ratio: thousandths of a percent.
RatioScale == 1000

\* The share of points retained instead of the share removed.
CalculateCompressionStatsRetained(count_original, count_optimized) ==
    [original_points |-> count_original,
     optimized_points |-> count_optimized,
     compression_ratio |-> IF count_original > 0
                           THEN (count_optimized * 100 * RatioScale) \div count_original
                           ELSE 0,
     storage_reduction |-> IF count_original > 0
                           THEN (2 * count_optimized * 1000 + count_original)
                                \div (2 * count_original)
                           ELSE 0]

\* GPXOptimizer.calculate_compression_stats: compression_ratio in
\* thousandths of a percent (rounded down), storage_reduction the number
\* printed by the .1f format, in tenths of a percent.
CalculateCompressionStats(count_original, count_optimized) ==
    [original_points |-> count_original,
     optimized_points |-> count_optimized,
     compression_ratio |-> IF count_original > 0
                           THEN ((count_original - count_optimized) * 100 * RatioScale)
                                \div count_original
                           ELSE 0,
     storage_reduction |-> IF count_original > 0
                           THEN (2 * (count_original - count_optimized) * 1000
                                 + count_original) \div (2 * count_original)
                           ELSE 0]

\* The annotation written into the dicts of the list passed in, as it would
\* be without the copy.
AddDistanceDataInPlace(points) == AddDistanceData(points)

\* The list passed to _add_distance_data, after the call: every dict is
\* copied (point.copy()), the copy is annotated and appended to a new list;
\* the argument and its dicts are only read.
AddDistanceDataArgument(points) == points

\* The list passed to optimize_track, after the call (returned or raised):
\* under 3 points it is returned as it is; otherwise only _add_distance_data
\* receives it, and the later stages build, slice, concatenate and sort
\* lists of their own.
OptimizeTrackArgument(track_points, c) ==
    IF Len(track_points) < 3 THEN track_points
    ELSE AddDistanceDataArgument(track_points)

\* The dicts a caller builds from TrackPoint objects to optimize them again.
AsTrackDicts(track_points) ==
    [i \in 1..Len(track_points) |->
        RawPoint(track_points[i].latitude, track_points[i].longitude, track_points[i].elevation)]

\* ----------------------------------------------------------- state machine
\* track    the caller's list of RawPoints (track_points)
\* cfg      the GPXOptimizer's three parameters (the defaults until one is
\*          constructed)
\* pc       "parsing" -> "parsed" -> "optimized" -> "reoptimized"
\* stats    what calculate_route_statistics returned
\* result   what optimize_track returned, raised the exception it raised
\* result2  what optimize_track returned for its own output, raised2 likewise
\* stages   the local variables of the optimize_track call on track
\* original_count, optimized_count   the arguments of
\*          calculate_compression_stats, compression what it returned
\*          (pc "counting" -> "counted")

\* A straight, flat approach of BaseLen samples 111 m apart.
Approach == [i \in 1..BaseLen |-> RawPoint(0, (i - 1) * 100, 0)]

\* The same approach sampled every 89 m.
DenseApproach == [i \in 1..BaseLen |-> RawPoint(0, (i - 1) * 80, 0)]

\* Length of the zigzag track: the longest track of the model.
ZigLen == BaseLen + MaxExtra

\* A flat zigzag heading east in steps of 56 m, its samples alternately
\* north and south of the axis, each 22 m nearer to it than the one before.
Zigzag ==
    [i \in 1..ZigLen |->
        RawPoint((IF i % 2 = 0 THEN 1 ELSE -1) * (ZigLen - i + 1) * 20, (i - 1) * 50, 0)]

\* The arguments and the result of calculate_compression_stats.
counts == <<original_count, optimized_count, compression>>

\* No compression statistics have been asked for.
NotComputed == [original_points |-> 0, optimized_points |-> 0,
                compression_ratio |-> 0, storage_reduction |-> 0]

Init ==
    /\ track \in {<< >>, Approach, DenseApproach, Zigzag}
    /\ cfg = DefaultConfig
    /\ pc = "parsing"
    /\ stats = ZeroStats
    /\ result = << >>
    /\ raised = "none"
    /\ result2 = << >>
    /\ raised2 = "none"
    /\ original_count = 0
    /\ optimized_count = 0
    /\ compression = NotComputed
    /\ stages = NotRun

\* process_gpx_content appends one trkpt to track_points.
AppendPoint ==
    /\ pc = "parsing"
    /\ \/ Len(track) < MaxLen
       \/ Len(track) >= BaseLen /\ Len(track) < BaseLen + MaxExtra
    /\ \E move \in Moves, ele \in Elevations :
          track' = IF track = << >>
                   THEN <<RawPoint(0, 0, ele)>>
                   ELSE Append(track, RawPoint(track[Len(track)].latitude + move[2],
                                               track[Len(track)].longitude + move[1],
                                               ele))
    /\ UNCHANGED <<cfg, pc, stats, result, raised, result2, raised2, stages>>
    /\ UNCHANGED counts

\* route_stats = calculate_route_statistics(track_points)
Statistics ==
    /\ pc = "parsing"
    /\ stats' = CalculateRouteStatistics(track)
    /\ pc' = "parsed"
    /\ UNCHANGED <<track, cfg, result, raised, result2, raised2, stages>>
    /\ UNCHANGED counts

\* The optimizer call followed by statistics taken from the points it
\* returned instead of the parsed ones.
OptimizeThenStatistics ==
    /\ pc = "parsed"
    /\ \E c \in Configs :
          /\ cfg' = c
          /\ \E locals \in {OptimizeTrackStages(track, c)} :
             \E outcome \in {OptimizeTrackOutcome(track, locals)} :
                /\ stages' = locals
                /\ result' = outcome.points
                /\ raised' = outcome.raised
                /\ stats' = CalculateRouteStatistics(AsTrackDicts(outcome.points))
          /\ track' = OptimizeTrackArgument(track, c)
    /\ pc' = "optimized"
    /\ UNCHANGED <<result2, raised2>>
    /\ UNCHANGED counts

\* GPXOptimizer(**c).optimize_track(track_points): __init__ stores the three
\* parameters as given, optimize_track runs the pipeline.
Optimize ==
    /\ pc = "parsed"
    /\ \E c \in Configs :
          /\ cfg' = c
          /\ \E locals \in {OptimizeTrackStages(track, c)} :
             \E outcome \in {OptimizeTrackOutcome(track, locals)} :
                /\ stages' = locals
                /\ result' = outcome.points
                /\ raised' = outcome.raised
          /\ track' = OptimizeTrackArgument(track, c)
    /\ pc' = "optimized"
    /\ UNCHANGED <<stats, result2, raised2>>
    /\ UNCHANGED counts

\* The same optimizer applied to its own output.
Reoptimize ==
    /\ pc = "optimized"
    /\ raised = "none"
    /\ \E outcome \in {OptimizeTrack(AsTrackDicts(result), cfg)} :
          /\ result2' = outcome.points
          /\ raised2' = outcome.raised
    /\ pc' = "reoptimized"
    /\ UNCHANGED <<track, cfg, stats, result, raised, stages>>
    /\ UNCHANGED counts

Next == AppendPoint \/ Statistics \/ Optimize \/ Reoptimize

Spec == Init /\ [][Next]_vars

\* calculate_compression_stats as a function of two point counts.
InitCounts ==
    /\ track = << >>
    /\ cfg = DefaultConfig
    /\ pc = "counting"
    /\ stats = ZeroStats
    /\ result = << >>
    /\ raised = "none"
    /\ result2 = << >>
    /\ raised2 = "none"
    /\ original_count \in 0..MaxCount
    /\ optimized_count \in 0..MaxCount
    /\ compression = NotComputed
    /\ stages = NotRun

\* GPXOptimizer().calculate_compression_stats(original_count, optimized_count)
CompressionStats ==
    /\ pc = "counting"
    /\ compression' = CalculateCompressionStats(original_count, optimized_count)
    /\ pc' = "counted"
    /\ UNCHANGED <<track, cfg, stats, result, raised, result2, raised2,
                   original_count, optimized_count, stages>>

NextCounts == CompressionStats

SpecCounts == InitCounts /\ [][NextCounts]_vars

TypeOK ==
    /\ pc \in {"parsing", "parsed", "optimized", "reoptimized", "counting", "counted"}
    /\ raised \in {"none", "ZeroDivisionError", "RecursionError"}
    /\ raised2 \in {"none", "ZeroDivisionError", "RecursionError"}
    /\ cfg \in Configs

\* ------------------------------------------------------------------ claims
SamePlace(p, q) == p.latitude = q.latitude /\ p.longitude = q.longitude

SamePoint(p, q) == SamePlace(p, q) /\ p.elevation = q.elevation

RECURSIVE PathLength(_)
\* Total path length of a track in cm: the sum of its segments.
PathLength(t) ==
    IF Len(t) < 2 THEN 0
    ELSE PathLength(SubSeq(t, 1, Len(t) - 1))
         + GreatCircle(t[Len(t) - 1].latitude, t[Len(t) - 1].longitude,
                       t[Len(t)].latitude, t[Len(t)].longitude)

\* floor(D * M) for a path of d cm and M points per kilometre.
DensityAllowance(d, m) == (d * m) \div 100000

\* optimize_track has returned (not raised) for the track.
OptimizeReturned == pc = "optimized" /\ raised = "none"

\* C1. Endpoint preservation: for a non-empty track the first and the last
\* point returned by optimize_track lie where the first and the last input
\* point lie.
EndpointPreservation ==
    (OptimizeReturned /\ ValidConfig(cfg) /\ track # << >>) =>
        /\ result # << >>
        /\ SamePlace(result[1], track[1])
        /\ SamePlace(result[Len(result)], track[Len(track)])

\* C2. No stage throws for well-formed input: with positive tolerances and
\* max_points_per_km > 0, optimize_track returns for every track.
NoStageThrows ==
    (pc = "optimized" /\ ValidConfig(cfg)) => raised = "none"

\* C3. Elevation spike on a straight path is retained: on a track of 3 or
\* more points advancing along a line of constant latitude, an interior
\* point that is above both of its neighbours by more than
\* elevation_tolerance (default configuration: 5 m) is in the output.
ElevationSpikeRetained ==
    (/\ OptimizeReturned
     /\ cfg = DefaultConfig
     /\ Len(track) >= 3
     /\ \A i \in 1..Len(track) : track[i].latitude = track[1].latitude
     /\ \A i \in 1..(Len(track) - 1) : track[i].longitude < track[i + 1].longitude) =>
        \A i \in 2..(Len(track) - 1) :
            (/\ track[i].elevation - track[i - 1].elevation > cfg.elevation_tolerance
             /\ track[i].elevation - track[i + 1].elevation > cfg.elevation_tolerance) =>
                \E j \in 1..Len(result) : SamePoint(result[j], track[i])

\* C4. Idempotence under re-optimization: optimizing the output again with
\* the same configuration returns the same number of points.
ReoptimizationKeepsCount ==
    (pc = "reoptimized" /\ cfg = DefaultConfig /\ raised2 = "none") =>
        Len(result2) = Len(result)

\* C5 as stated. Density bound: the output of optimize_track has at most
\* floor(D * M) + 1 points, D the track's path length in km.
DensityBoundAsStated ==
    (OptimizeReturned /\ cfg.max_points_per_km > 0) =>
        Len(result) <= DensityAllowance(PathLength(track), cfg.max_points_per_km) + 1

\* C5 as amended. Density bound: the output of optimize_track has at most
\* max(2, floor(D * M) + 1) points; a track of fewer than 3 points is
\* returned whole, however short it is.
DensityBound ==
    (pc = "optimized" /\ cfg.max_points_per_km > 0) =>
        Len(result) <= Max(2, DensityAllowance(PathLength(track), cfg.max_points_per_km) + 1)

\* C5 witness: the density cap removed points of a track of 3 or more and
\* the output has exactly floor(D * M) + 1 points.
DensityBoundWitness ==
    /\ OptimizeReturned
    /\ ValidConfig(cfg)
    /\ Len(track) >= 3
    /\ Len(result) < Len(ElevationPreserved(track, cfg))
    /\ Len(result) = DensityAllowance(PathLength(track), cfg.max_points_per_km) + 1

\* C6. Distance consistency with statistics: for a track of 2 or more
\* points the last output point's distance_from_start is the total_distance
\* of calculate_route_statistics.
DistanceConsistentWithStatistics ==
    (OptimizeReturned /\ ValidConfig(cfg) /\ Len(track) >= 2) =>
        /\ result # << >>
        /\ result[Len(result)].distance_from_start = stats.total_distance

\* C7. Monotonic distance: distance_from_start never decreases along the
\* output of optimize_track (first pass and re-optimization alike).
MonotonicDistance ==
    /\ \A i \in 1..(Len(result) - 1) :
          result[i].distance_from_start <= result[i + 1].distance_from_start
    /\ \A i \in 1..(Len(result2) - 1) :
          result2[i].distance_from_start <= result2[i + 1].distance_from_start

\* C7 witness: an elevation feature that Douglas-Peucker had dropped was
\* merged back and sits in the output between two other points, in
\* distance order.
MonotonicDistanceWitness ==
    /\ OptimizeReturned
    /\ \E i \in 2..(Len(result) - 1) :
          /\ result[i - 1].distance_from_start < result[i].distance_from_start
          /\ result[i].distance_from_start < result[i + 1].distance_from_start
          /\ \E k \in 1..Len(track) :
                /\ IsElevationPeakOrValley(AddDistanceData(track), k - 1)
                /\ AddDistanceData(track)[k].distance_from_start = result[i].distance_from_start
                /\ SamePoint(track[k], result[i])
                /\ \A j \in 1..Len(Simplified(track, cfg).points) :
                      Simplified(track, cfg).points[j].index # k - 1

\* C8. Precondition violations are signalled: with a tolerance <= 0 or
\* max_points_per_km = 0 the optimize call reports an error instead of
\* returning a result.
PreconditionViolationSignalled ==
    (pc = "optimized" /\ ~ValidConfig(cfg) /\ Len(track) >= 3) => raised # "none"

\* The track is flat and runs due east: constant latitude and elevation,
\* strictly increasing longitude.
FlatAdvancing(t) ==
    /\ \A i \in 1..Len(t) : t[i].latitude = t[1].latitude /\ t[i].elevation = t[1].elevation
    /\ \A i \in 1..(Len(t) - 1) : t[i].longitude < t[i + 1].longitude

\* C9. Collinear flat track collapses to its endpoints: with the default
\* configuration the output for a flat track advancing along one line is
\* exactly its first and its last point.
CollinearFlatCollapses ==
    (OptimizeReturned /\ cfg = DefaultConfig /\ Len(track) >= 2 /\ FlatAdvancing(track)) =>
        /\ Len(result) = 2
        /\ SamePoint(result[1], track[1])
        /\ SamePoint(result[2], track[Len(track)])

\* C10. Empty and singleton input are not errors: the statistics are all 0,
\* optimize_track returns [] for [] and, for [p], one point with p's
\* latitude, longitude and elevation.
EmptyAndSingleton ==
    (pc = "optimized" /\ Len(track) <= 1) =>
        /\ raised = "none"
        /\ stats = ZeroStats
        /\ Len(result) = Len(track)
        /\ \A i \in 1..Len(track) : SamePoint(result[i], track[i])

\* C10 witness: optimize_track and calculate_route_statistics have run on
\* a single point of non-zero elevation.
EmptyAndSingletonWitness ==
    /\ pc = "optimized"
    /\ Len(track) = 1
    /\ track[1].elevation # 0
    /\ Len(result) = 1


\* Two samples of the track have the same cumulative distance.
SharedDistance(t) ==
    \E i, j \in 1..Len(t) :
        /\ i < j
        /\ AddDistanceData(t)[i].distance_from_start = AddDistanceData(t)[j].distance_from_start

\* C11. No merge, no reorder: the output of optimize_track is a subsequence
\* of the input: every output point carries latitude, longitude and
\* elevation of the input point it stems from, and the original indices of
\* the output points are strictly increasing.
NoMergeNoReorder ==
    OptimizeReturned =>
        IF Len(track) < 3
        THEN /\ Len(result) = Len(track)
             /\ \A j \in 1..Len(track) : SamePoint(result[j], track[j])
        ELSE LET final_points == stages.final_points.points
             IN /\ Len(result) = Len(final_points)
                /\ \A j \in 1..Len(result) :
                      SamePoint(result[j], track[final_points[j].index + 1])
                /\ \A j \in 1..(Len(final_points) - 1) :
                      final_points[j].index < final_points[j + 1].index

\* C11 witness: a track with samples of equal cumulative distance and an
\* elevation feature has been optimized to 3 or more points.
NoMergeNoReorderWitness ==
    /\ OptimizeReturned
    /\ SharedDistance(track)
    /\ ElevationFeatures(AddDistanceData(track)) # << >>
    /\ Len(result) >= 3


\* The keys of a dict of the parser's track_points list.
RawKeys == {"latitude", "longitude", "elevation"}

ElevationDeltas(t) ==
    [i \in 1..(Len(t) - 1) |-> t[i + 1].elevation - t[i].elevation]

RECURSIVE SumOfPositive(_)
SumOfPositive(deltas) ==
    IF deltas = << >> THEN 0
    ELSE (IF Head(deltas) > 0 THEN Head(deltas) ELSE 0) + SumOfPositive(Tail(deltas))

RECURSIVE SumOfAbsNonPositive(_)
SumOfAbsNonPositive(deltas) ==
    IF deltas = << >> THEN 0
    ELSE (IF Head(deltas) > 0 THEN 0 ELSE 0 - Head(deltas))
         + SumOfAbsNonPositive(Tail(deltas))

\* C13. Statistics invariant: calculate_route_statistics returns
\* elevation_gain >= 0 and elevation_loss >= 0; gain is the sum of the
\* strictly positive consecutive elevation deltas, loss the sum of the
\* absolute values of the other deltas, with no smoothing.
StatisticsInvariant ==
    pc # "parsing" =>
        /\ stats.elevation_gain >= 0
        /\ stats.elevation_loss >= 0
        /\ stats.elevation_gain = SumOfPositive(ElevationDeltas(track))
        /\ stats.elevation_loss = SumOfAbsNonPositive(ElevationDeltas(track))

\* C13 witness: statistics of a track that climbs, descends and has a level
\* stretch.
StatisticsInvariantWitness ==
    /\ pc = "parsed"
    /\ stats.elevation_gain > 0
    /\ stats.elevation_loss > 0
    /\ \E i \in 1..(Len(track) - 1) : ElevationDeltas(track)[i] = 0


\* C14. Statistics independence from simplification: whatever
\* distance_tolerance, elevation_tolerance and max_points_per_km the
\* optimizer is run with, and however often, the RouteStatistics of the
\* track stay those of its full original sequence.
StatisticsIndependence ==
    pc \in {"optimized", "reoptimized"} =>
        \A c \in Configs :
            cfg = c =>
                /\ stats.total_distance = PathLength(track)
                /\ stats.elevation_gain = SumOfPositive(ElevationDeltas(track))
                /\ stats.elevation_loss = SumOfAbsNonPositive(ElevationDeltas(track))

\* C14 witness: a non-default config has shortened a track so that the
\* statistics of the returned points would differ in distance and climb.
StatisticsIndependenceWitness ==
    /\ pc = "optimized"
    /\ raised = "none"
    /\ cfg # DefaultConfig
    /\ Len(result) < Len(track)
    /\ PathLength(result) < stats.total_distance
    /\ SumOfPositive(ElevationDeltas(result)) < stats.elevation_gain


\* C15. Compression ratio correctness: for all counts,
\* calculate_compression_stats(orig, opt) returns compression_ratio =
\* (orig - opt) / orig * 100 when orig > 0 (here to a thousandth of a
\* percent) and 0 when orig = 0, and echoes orig and opt as
\* original_points and optimized_points.
CompressionRatioCorrect ==
    pc = "counted" =>
        /\ compression.original_points = original_count
        /\ compression.optimized_points = optimized_count
        /\ original_count = 0 => compression.compression_ratio = 0
        /\ original_count > 0 =>
              LET exact == (original_count - optimized_count) * 100 * RatioScale
              IN /\ compression.compression_ratio * original_count <= exact
                 /\ exact < (compression.compression_ratio + 1) * original_count

\* C15 witness: one third of the points is left, the ratio is 66.666 %.
CompressionRatioCorrectWitness ==
    /\ pc = "counted"
    /\ original_count = 3
    /\ optimized_count = 1
    /\ compression.compression_ratio = 66666

\* C16. Elevation features survive stage 5: every interior point of the
\* original sequence that is a strict peak or valley within its window is
\* in the sequence _preserve_elevation_features returns, whatever the
\* simplified sequence holds and however close the feature lies to the
\* point kept before it.
ElevationFeaturesSurvive ==
    (/\ pc = "optimized"
     /\ cfg = DefaultConfig
     /\ Len(track) >= 3
     /\ Simplified(track, cfg).raised = "none") =>
        LET original_points == AddDistanceData(track)
            merged == ElevationPreserved(track, cfg)
        IN \A i \in 1..Len(original_points) :
               IsElevationPeakOrValley(original_points, i - 1) =>
                   \E j \in 1..Len(merged) : merged[j].index = i - 1


\* No two consecutive samples are more than 100 m apart.
SpacingWithinGap(points) ==
    \A i \in 1..(Len(points) - 1) : ~IsSignificantDistanceGap(points[i], points[i + 1])

\* C17. Gap hard floor: in the output of _remove_redundant_points the
\* cumulative-distance difference between two consecutive retained points
\* never exceeds 100 m, however straight and flat the track is (here for
\* raw samples that are themselves at most 100 m apart).
GapHardFloor ==
    (pc = "parsed" /\ Len(track) >= 3) =>
        LET points == AddDistanceData(track)
            filtered == RemoveRedundantPoints(points, cfg)
        IN SpacingWithinGap(points) => SpacingWithinGap(filtered)

\* The 0-based indices of the points of a sequence.
Indices(points) == {points[j].index : j \in 1..Len(points)}

\* The last index below i in the set of indices K.
LastBelow(K, i) == CHOOSE k \in K : k < i /\ \A m \in K : m < i => m <= k

\* One of the three tests holds for curr with the given prev and next.
AnyTestHolds(prev, curr, next, c) ==
    \/ IsSignificantDirectionChange(prev, curr, next)
    \/ IsSignificantElevationChange(prev, curr, next, c)
    \/ IsSignificantDistanceGap(prev, curr)

\* C18. RedundancyFilter retention rule: an interior point curr is retained
\* if and only if the direction test, the elevation test or the gap test
\* holds, prev being the most recently retained point (not the raw
\* predecessor) and next the next raw point.
RetentionRule ==
    (pc = "optimized" /\ Len(track) >= 3) =>
        LET points == stages.processed_points
            retained == Indices(stages.filtered_points)
        IN \A i \in 1..(Len(points) - 2) :
               i \in retained <=>
                   AnyTestHolds(points[LastBelow(retained, i) + 1],
                                points[i + 1], points[i + 2], cfg)

\* C18 witness: a point was retained for which no test holds against its
\* raw predecessor, and a point was dropped behind a dropped point.
RetentionRuleWitness ==
    /\ OptimizeReturned
    /\ Len(track) >= 3
    /\ LET points == AddDistanceData(track)
           retained == Indices(RemoveRedundantPoints(points, cfg))
       IN /\ \E i \in 1..(Len(points) - 2) :
                /\ i \in retained
                /\ ~AnyTestHolds(points[i], points[i + 1], points[i + 2], cfg)
          /\ \E i \in 2..(Len(points) - 2) :
                /\ i \notin retained
                /\ i - 1 \notin retained

\* C19. RedundancyFilter keeps both ends: for an input of 2 or more points
\* the output of _remove_redundant_points begins with the input's first
\* point and ends with its last point, each appearing exactly once, and
\* the output is a subsequence of the input.
FilterKeepsBothEnds ==
    (pc = "optimized" /\ Len(track) >= 2) =>
        LET points == AddDistanceData(track)
            filtered == RemoveRedundantPoints(points, cfg)
            last_index == Len(points) - 1
        IN /\ filtered[1] = points[1]
           /\ filtered[Len(filtered)] = points[Len(points)]
           /\ Cardinality({j \in 1..Len(filtered) : filtered[j].index = 0}) = 1
           /\ Cardinality({j \in 1..Len(filtered) : filtered[j].index = last_index}) = 1
           /\ \A j \in 1..Len(filtered) : filtered[j] = points[filtered[j].index + 1]
           /\ \A j \in 1..(Len(filtered) - 1) : filtered[j].index < filtered[j + 1].index

\* C19 witness: the filter dropped interior points of a track whose last
\* sample repeats the position of the one before it.
FilterKeepsBothEndsWitness ==
    /\ OptimizeReturned
    /\ Len(track) >= 3
    /\ SamePlace(track[Len(track)], track[Len(track) - 1])
    /\ Len(RemoveRedundantPoints(AddDistanceData(track), cfg)) < Len(track) - 1

\* Planar distance between two points, in cm (degrees times 111000).
PlanarDistance(p, q) ==
    (ISqrt(100 * ((p.longitude - q.longitude) * (p.longitude - q.longitude)
                  + (p.latitude - q.latitude) * (p.latitude - q.latitude)))
     * PlanarUnit) \div 100

\* Planar distance from point to the segment line_start..line_end for a
\* point on the segment's line: 0 within the segment, else the distance to
\* the nearer endpoint.
DistanceAlongChordLine(point, line_start, line_end) ==
    LET dx == line_end.longitude - line_start.longitude
        dy == line_end.latitude - line_start.latitude
        along == (point.longitude - line_start.longitude) * dx
                 + (point.latitude - line_start.latitude) * dy
    IN IF along < 0 THEN PlanarDistance(point, line_start)
       ELSE IF along > dx * dx + dy * dy THEN PlanarDistance(point, line_end)
       ELSE 0

\* The point lies on the line through a chord of non-zero length.
OnChordLine(point, line_start, line_end) ==
    /\ ~SamePlace(line_start, line_end)
    /\ (line_end.latitude - line_start.latitude) * (point.longitude - line_start.longitude)
       = (line_end.longitude - line_start.longitude) * (point.latitude - line_start.latitude)

\* C20. Perpendicular distance is measured to the chord segment: an
\* interior point of the simplifier's input that lies on the chord's line
\* beyond one of its endpoints (an out-and-back spur) by more than the
\* tolerance has a positive distance, and the simplifier keeps an interior
\* point instead of returning the two chord ends alone.
DistanceToChordSegment ==
    (OptimizeReturned /\ cfg = DefaultConfig /\ Len(track) >= 3) =>
        LET filtered == RemoveRedundantPoints(AddDistanceData(track), cfg)
            line_start == filtered[1]
            line_end == filtered[Len(filtered)]
            simplified == Simplified(track, cfg).points
        IN \A j \in 2..(Len(filtered) - 1) :
               (/\ OnChordLine(filtered[j], line_start, line_end)
                /\ DistanceAlongChordLine(filtered[j], line_start, line_end)
                       > cfg.distance_tolerance * 100) =>
                   /\ PerpendicularDistance(filtered[j], line_start, line_end) > 0
                   /\ Len(simplified) > 2


\* The intervals of a sequence of 3 or more points whose first and last
\* point have identical coordinates, as pairs of positions.
ZeroChordIntervals(points) ==
    {ab \in (1..Len(points)) \X (1..Len(points)) :
        /\ ab[2] >= ab[1] + 2
        /\ SamePlace(points[ab[1]], points[ab[2]])}

\* C21 as stated. Zero-length chord: every interior point of an interval
\* whose first and last point have identical coordinates has perpendicular
\* distance 0, and _douglas_peucker collapses the interval to one point.
ZeroChordCollapsesToOnePoint ==
    (pc = "optimized" /\ cfg.distance_tolerance > 0 /\ Len(track) >= 3) =>
        LET filtered == RemoveRedundantPoints(AddDistanceData(track), cfg)
        IN \A ab \in ZeroChordIntervals(filtered) :
               LET interval == SubSeq(filtered, ab[1], ab[2])
               IN /\ \A j \in 2..(Len(interval) - 1) :
                         PerpendicularDistance(interval[j], interval[1],
                                               interval[Len(interval)]) = 0
                  /\ Len(DouglasPeucker(interval, cfg.distance_tolerance * 100).points) = 1

\* C21 as amended. Zero-length chord: every interior point of such an
\* interval has perpendicular distance 0 whatever its position, and
\* _douglas_peucker returns the interval's two endpoints: two points at the
\* same coordinates, not one.
ZeroChordCollapsesToEndpoints ==
    (pc = "optimized" /\ cfg.distance_tolerance > 0 /\ Len(track) >= 3) =>
        LET filtered == stages.filtered_points
        IN \A ab \in ZeroChordIntervals(filtered) :
               LET interval == SubSeq(filtered, ab[1], ab[2])
               IN /\ \A j \in 2..(Len(interval) - 1) :
                         PerpendicularDistance(interval[j], interval[1],
                                               interval[Len(interval)]) = 0
                  /\ DouglasPeucker(interval, cfg.distance_tolerance * 100)
                         = Returned(<<interval[1], interval[Len(interval)]>>)

\* C21 witness: the simplifier's whole input is a closed loop whose interior
\* point lies farther from the endpoint than the tolerance.
ZeroChordWitness ==
    /\ OptimizeReturned
    /\ cfg.distance_tolerance > 0
    /\ Len(track) >= 3
    /\ LET filtered == RemoveRedundantPoints(AddDistanceData(track), cfg)
       IN /\ <<1, Len(filtered)>> \in ZeroChordIntervals(filtered)
          /\ \E j \in 2..(Len(filtered) - 1) :
                PlanarDistance(filtered[j], filtered[1]) > cfg.distance_tolerance * 100


RECURSIVE SplitIntervals(_, _, _)
\* The intervals that _douglas_peucker splits: the one it is called with,
\* if a point of it lies farther from the chord than the tolerance, and
\* those that its two recursive calls split.
SplitIntervals(points, tolerance, frames) ==
    IF frames > RecursionLimit \/ Len(points) < 3 THEN {}
    ELSE LET scan == MaxDistanceLoop(points, 1, 0, 0)
         IN IF scan.max_distance > tolerance
            THEN {points}
                 \cup SplitIntervals(SubSeq(points, 1, scan.max_index + 1), tolerance, frames + 1)
                 \cup SplitIntervals(SubSeq(points, scan.max_index + 1, Len(points)),
                                     tolerance, frames + 1)
            ELSE {}

\* The positions of the interior points of an interval that lie at the
\* largest perpendicular distance from its chord.
FarthestPositions(interval) ==
    LET interior == 2..(Len(interval) - 1)
        distance == [j \in interior |->
                        PerpendicularDistance(interval[j], interval[1], interval[Len(interval)])]
    IN {j \in interior : \A k \in interior : distance[k] <= distance[j]}

\* The smallest number of a non-empty set of numbers.
Least(S) == CHOOSE m \in S : \A k \in S : m <= k

\* C22. Douglas-Peucker tie-break: when several interior points of an
\* interval the simplifier splits have the same maximum perpendicular
\* distance, exceeding the tolerance, the split point is the one with the
\* smallest index, and both sub-intervals include it.
TieBreakFirst ==
    (pc = "optimized" /\ cfg.distance_tolerance > 0 /\ Len(track) >= 3) =>
        \A filtered \in {stages.filtered_points} :
        \A tolerance \in {cfg.distance_tolerance * 100} :
        \A interval \in SplitIntervals(filtered, tolerance, 1) :
        \A farthest \in {FarthestPositions(interval)} :
        \A first \in {Least(farthest)} :
            (/\ Cardinality(farthest) >= 2
             /\ PerpendicularDistance(interval[first], interval[1],
                                      interval[Len(interval)]) > tolerance
             /\ DouglasPeucker(interval, tolerance).raised = "none") =>
                \A left_part \in {DouglasPeucker(SubSeq(interval, 1, first),
                                                  tolerance).points} :
                \A right_part \in {DouglasPeucker(SubSeq(interval, first, Len(interval)),
                                                   tolerance).points} :
                \A simplified \in {DouglasPeucker(interval, tolerance).points} :
                    /\ MaxDistanceLoop(interval, 1, 0, 0).max_index = first - 1
                    /\ left_part[Len(left_part)] = interval[first]
                    /\ right_part[1] = interval[first]
                    /\ simplified = SubSeq(left_part, 1, Len(left_part) - 1) \o right_part
                    /\ \E j \in 1..Len(simplified) : simplified[j] = interval[first]

\* C22 witness: in the simplifier's whole input two interior points lie at
\* the same place, farther from the chord than the tolerance and than every
\* other point.
TieBreakFirstWitness ==
    /\ OptimizeReturned
    /\ cfg.distance_tolerance > 0
    /\ Len(track) >= 3
    /\ LET filtered == RemoveRedundantPoints(AddDistanceData(track), cfg)
           farthest == FarthestPositions(filtered)
       IN /\ Len(filtered) >= 4
          /\ Cardinality(farthest) >= 2
          /\ \A j, k \in farthest : SamePlace(filtered[j], filtered[k])
          /\ PerpendicularDistance(filtered[Least(farthest)], filtered[1],
                                   filtered[Len(filtered)]) > cfg.distance_tolerance * 100


\* Planar distance, in cm, of point p from the line through a and b; from
\* the place itself when a and b coincide.
LineDistance(p, a, b) ==
    LET dx == b.longitude - a.longitude
        dy == b.latitude - a.latitude
        twice_area == Abs(dy * (p.longitude - a.longitude) - dx * (p.latitude - a.latitude))
    IN IF dx = 0 /\ dy = 0 THEN PlanarDistance(p, a)
       ELSE (twice_area * PlanarUnit) \div ISqrt(100 * (dx * dx + dy * dy))

\* The point of a sequence with the largest index below i / the smallest
\* index above i.
Before(points, i) ==
    CHOOSE q \in {points[j] : j \in 1..Len(points)} :
        /\ q.index < i
        /\ \A j \in 1..Len(points) : points[j].index < i => points[j].index <= q.index

After(points, i) ==
    CHOOSE q \in {points[j] : j \in 1..Len(points)} :
        /\ q.index > i
        /\ \A j \in 1..Len(points) : points[j].index > i => points[j].index >= q.index

\* C23 as stated. Douglas-Peucker tolerance guarantee: for tolerance > 0
\* the output keeps the input's first and last point, and every dropped
\* point lies within tolerance of the line through the two output points
\* that bracket it.
ToleranceGuaranteeAsStated ==
    (OptimizeReturned /\ cfg.distance_tolerance > 0 /\ Len(track) >= 3) =>
        LET filtered == RemoveRedundantPoints(AddDistanceData(track), cfg)
            simplified == DouglasPeucker(filtered, cfg.distance_tolerance * 100).points
            kept == Indices(simplified)
        IN /\ simplified[1] = filtered[1]
           /\ simplified[Len(simplified)] = filtered[Len(filtered)]
           /\ \A j \in 1..Len(filtered) :
                  filtered[j].index \notin kept =>
                      LineDistance(filtered[j],
                                   Before(simplified, filtered[j].index),
                                   After(simplified, filtered[j].index))
                          <= cfg.distance_tolerance * 100

\* C23 as amended. The same guarantee for dropped points whose two
\* bracketing output points differ in coordinates; between two output
\* points at the same place (a closed loop) a dropped point may lie at any
\* distance.
ToleranceGuarantee ==
    (OptimizeReturned /\ cfg.distance_tolerance > 0 /\ Len(track) >= 3) =>
        LET filtered == stages.filtered_points
            simplified == stages.simplified_points.points
            kept == Indices(simplified)
        IN /\ simplified[1] = filtered[1]
           /\ simplified[Len(simplified)] = filtered[Len(filtered)]
           /\ \A j \in 1..Len(filtered) :
                  (/\ filtered[j].index \notin kept
                   /\ ~SamePlace(Before(simplified, filtered[j].index),
                                 After(simplified, filtered[j].index))) =>
                      LineDistance(filtered[j],
                                   Before(simplified, filtered[j].index),
                                   After(simplified, filtered[j].index))
                          <= cfg.distance_tolerance * 100

\* C23 witness: the simplifier kept an interior point and dropped another
\* one that lies off the line of its bracketing output points.
ToleranceGuaranteeWitness ==
    /\ OptimizeReturned
    /\ cfg.distance_tolerance > 0
    /\ Len(track) >= 3
    /\ LET filtered == RemoveRedundantPoints(AddDistanceData(track), cfg)
           simplified == DouglasPeucker(filtered, cfg.distance_tolerance * 100).points
           kept == Indices(simplified)
       IN /\ Len(simplified) > 2
          /\ \E j \in 1..Len(filtered) :
                /\ filtered[j].index \notin kept
                /\ LineDistance(filtered[j],
                                Before(simplified, filtered[j].index),
                                After(simplified, filtered[j].index)) > 0


\* C24. Douglas-Peucker terminates: for every track and tolerance > 0 the
\* recursion of _douglas_peucker reaches its base case and returns; a
\* split happens only at an index strictly between the first and the last
\* index of the interval, so both recursive calls receive strictly shorter
\* sequences.
DouglasPeuckerTerminates ==
    (pc = "optimized" /\ cfg.distance_tolerance > 0 /\ Len(track) >= 3) =>
        LET filtered == RemoveRedundantPoints(AddDistanceData(track), cfg)
            tolerance == cfg.distance_tolerance * 100
        IN /\ DouglasPeucker(filtered, tolerance).raised = "none"
           /\ raised # "RecursionError"
           /\ \A a, b \in 1..Len(filtered) :
                  b >= a + 2 =>
                      LET interval == SubSeq(filtered, a, b)
                          scan == MaxDistanceLoop(interval, 1, 0, 0)
                      IN scan.max_distance > tolerance =>
                             /\ 0 < scan.max_index
                             /\ scan.max_index < Len(interval) - 1
                             /\ Len(SubSeq(interval, 1, scan.max_index + 1)) < Len(interval)
                             /\ Len(SubSeq(interval, scan.max_index + 1, Len(interval)))
                                    < Len(interval)

\* C25. Minimum separation after the merge: in the sequence returned by
\* _preserve_elevation_features every point after the first lies more than
\* 5 m (haversine) from the point kept immediately before it, and a point
\* that is both in the simplified sequence and an elevation feature
\* appears only once.
MinimumSeparation ==
    (pc = "optimized" /\ Len(track) >= 3 /\ stages.simplified_points.raised = "none") =>
        LET merged == stages.elevation_preserved
        IN /\ \A j \in 2..Len(merged) :
                  Haversine(merged[j - 1].latitude, merged[j - 1].longitude,
                            merged[j].latitude, merged[j].longitude) > MinSeparation
           /\ \A j, k \in 1..Len(merged) : j # k => merged[j].index # merged[k].index

\* C25 witness: an elevation feature that the simplifier had kept is in the
\* merged sequence, and the 5 m pass dropped another point.
MinimumSeparationWitness ==
    /\ OptimizeReturned
    /\ Len(track) >= 3
    /\ LET original_points == AddDistanceData(track)
           simplified == Simplified(track, cfg).points
           features == ElevationFeatures(original_points)
           merged == ElevationPreserved(track, cfg)
       IN /\ \E f \in Indices(features) : f \in Indices(simplified) /\ f \in Indices(merged)
          /\ Len(merged) < Len(simplified) + Len(features) - 1


\* C26. DensityCapper never drops the terminal point: for every input of 2
\* or more points (max_points_per_km > 0) _ensure_minimum_density returns
\* a sequence whose last element is the last element of its input, be it
\* returned unchanged or stride-sampled.
TerminalPointKept ==
    (/\ pc = "optimized"
     /\ cfg.max_points_per_km > 0
     /\ Len(track) >= 3
     /\ Simplified(track, cfg).raised = "none") =>
        LET merged == ElevationPreserved(track, cfg)
            capped == EnsureMinimumDensity(merged, cfg)
        IN Len(merged) >= 2 =>
               /\ capped.raised = "none"
               /\ capped.points # << >>
               /\ capped.points[Len(capped.points)] = merged[Len(merged)]


\* C27. Cumulative distance is threaded, never recomputed: for a track of
\* any length >= 1, every point in the output of optimize_track is an
\* original point whose distance_from_start is the sum of the haversine
\* distances between consecutive original points up to its original index
\* (0 for the first), never a value left at a default.
DistanceThreaded ==
    (OptimizeReturned /\ Len(track) >= 1) =>
        \A k \in 1..Len(result) :
            \E i \in 1..Len(track) :
                /\ SamePoint(result[k], track[i])
                /\ result[k].distance_from_start = PathLength(SubSeq(track, 1, i))


\* C28. Net elevation identity: for a track of 1 or more points the
\* statistics satisfy elevation_gain - elevation_loss = elevation of the
\* last point - elevation of the first point.
NetElevationIdentity ==
    (pc # "parsing" /\ Len(track) >= 1) =>
        stats.elevation_gain - stats.elevation_loss
            = track[Len(track)].elevation - track[1].elevation

\* C28 witness: statistics of a track that climbs and then descends back to
\* the elevation it started at, gain and loss cancelling.
NetElevationIdentityWitness ==
    /\ pc = "parsed"
    /\ Len(track) >= 3
    /\ stats.elevation_gain > 0
    /\ stats.elevation_loss = stats.elevation_gain
    /\ track[Len(track)].elevation = track[1].elevation


\* C29. The optimizer never grows a track: the number of points returned
\* by optimize_track is at most the number of input points (re-inserting
\* elevation features produces no duplicates or extra points), so the
\* compression ratio computed from the two counts lies in [0, 100].
NeverGrows ==
    /\ OptimizeReturned =>
          /\ Len(result) <= Len(track)
          /\ \A i, j \in 1..Len(result) :
                (i # j /\ Len(track) >= 3) => result[i] # result[j]
          /\ LET ratio == CalculateCompressionStats(Len(track), Len(result)).compression_ratio
             IN ratio >= 0 /\ ratio <= 100 * RatioScale
    /\ (pc = "reoptimized" /\ raised2 = "none") =>
          /\ Len(result2) <= Len(result)
          /\ LET ratio == CalculateCompressionStats(Len(result), Len(result2)).compression_ratio
             IN ratio >= 0 /\ ratio <= 100 * RatioScale

\* C29 witness: an elevation feature that Douglas-Peucker had kept was
\* offered for re-insertion as well, and the returned track is shorter
\* than the input.
NeverGrowsWitness ==
    /\ OptimizeReturned
    /\ Len(result) < Len(track)
    /\ LET processed == AddDistanceData(track)
           simplified == Simplified(track, cfg).points
       IN \E i \in 1..Len(simplified) :
             IsElevationPeakOrValley(processed, simplified[i].index)


\* C30. Short tracks get no elevation re-insertion: for an original
\* sequence of fewer than 10 points the window min(5, len // 10) is 0,
\* _is_elevation_peak_or_valley is false for every index and the output of
\* _preserve_elevation_features holds only points of the simplified
\* sequence; the first and the last original point are never features, at
\* any length.
ShortTracksNoFeatures ==
    pc = "optimized" =>
        LET processed == IF Len(track) >= 3 THEN stages.processed_points
                                             ELSE AddDistanceData(track)
            simplified == stages.simplified_points
        IN /\ Len(track) < WindowDivisor =>
                /\ Min(MaxWindow, Len(processed) \div WindowDivisor) = 0
                /\ \A index \in 0..(Len(processed) - 1) :
                      ~IsElevationPeakOrValley(processed, index)
                /\ (Len(track) >= 3 /\ simplified.raised = "none") =>
                      LET merged == stages.elevation_preserved
                      IN \A k \in 1..Len(merged) :
                            \E i \in 1..Len(simplified.points) :
                                merged[k] = simplified.points[i]
           /\ Len(track) >= 1 =>
                /\ ~IsElevationPeakOrValley(processed, 0)
                /\ ~IsElevationPeakOrValley(processed, Len(processed) - 1)

\* C30 witness: a track of three points whose middle point lies above both
\* its neighbours was optimized, and the middle point is not in the output.
ShortTracksNoFeaturesWitness ==
    /\ OptimizeReturned
    /\ Len(track) = 3
    /\ track[2].elevation > track[1].elevation
    /\ track[2].elevation > track[3].elevation
    /\ \A k \in 1..Len(result) : ~SamePoint(result[k], track[2])


====
